---- MODULE Spec2Model ----
(***************************************************************************)
(* Model of tools/converter.py: the translator between packed struct       *)
(* declarations (C header text) and the YAML signal schema.                *)
(*                                                                         *)
(* Python strings are TLA+ strings; they are handled character by          *)
(* character with Len, SubSeq and \o, so that str.strip, str.split,        *)
(* str.count, the `in` operator and the three regular expressions of the   *)
(* source are computed the way the interpreter computes them.              *)
(***************************************************************************)
EXTENDS Integers, Sequences, FiniteSets, TLC

(***************************************************************************)
(* Bounds of the checked input space.                                      *)
(***************************************************************************)
MaxDecls == 2        \* declarations in one header text
MaxFields == 2       \* ordinary members in one declaration
MaxYamlFields == 3   \* field descriptors in one schema packet

(***************************************************************************)
(* Python str primitives.  Searches are written as a least or greatest     *)
(* index and character-wise rewrites split the string in halves, so that   *)
(* no evaluation nests as deep as a string is long.                        *)
(***************************************************************************)
Ch(s, i) == IF i >= 1 /\ i <= Len(s) THEN SubSeq(s, i, i) ELSE ""

\* s[a:b] with 1-based inclusive bounds; empty when the range is empty
Slice(s, a, b) == IF a > b \/ a > Len(s) \/ b < 1 THEN ""
                  ELSE SubSeq(s, IF a < 1 THEN 1 ELSE a, IF b > Len(s) THEN Len(s) ELSE b)

Min(S) == CHOOSE x \in S : \A y \in S : x <= y
Max(S) == CHOOSE x \in S : \A y \in S : x >= y

Whitespace == {" ", "\n", "\t", "\r"}
IsSpace(c) == c \in Whitespace

Letters == "abcdefghijklmnopqrstuvwxyzABCDEFGHIJKLMNOPQRSTUVWXYZ_"
Digits == "0123456789"
DigitChars == {SubSeq(Digits, k, k) : k \in 1..Len(Digits)}
WordChars == {SubSeq(Letters, k, k) : k \in 1..Len(Letters)} \cup DigitChars
IsWordChar(c) == c \in WordChars      \* \w
IsDigit(c) == c \in DigitChars        \* \d

\* sub occurs in s at index k
OccursAt(s, sub, k) == k >= 1 /\ k + Len(sub) - 1 <= Len(s) /\ SubSeq(s, k, k + Len(sub) - 1) = sub

\* str.find(sub, k), 1-based; 0 when absent (Python's -1)
FindFrom(s, sub, k) ==
    LET hits == {j \in k..(Len(s) - Len(sub) + 1) : OccursAt(s, sub, j)}
    IN IF hits = {} THEN 0 ELSE Min(hits)

\* str.find, 1-based; 0 when absent
Find(s, sub) == FindFrom(s, sub, 1)

\* str.rfind, 1-based; 0 when absent
RFind(s, sub) ==
    LET hits == {j \in 1..(Len(s) - Len(sub) + 1) : OccursAt(s, sub, j)}
    IN IF hits = {} THEN 0 ELSE Max(hits)

\* sub in s
Contains(s, sub) == \E j \in 1..(Len(s) - Len(sub) + 1) : OccursAt(s, sub, j)

\* s.endswith(sub)
EndsWith(s, sub) == OccursAt(s, sub, Len(s) - Len(sub) + 1)

\* s.count(c) for a one-character c
Count(s, c) == Cardinality({k \in 1..Len(s) : SubSeq(s, k, k) = c})

\* first index >= k that is past the end of s or holds no whitespace
SkipSpace(s, k) ==
    CHOOSE j \in k..(Len(s) + 1) :
        /\ j > Len(s) \/ ~IsSpace(Ch(s, j))
        /\ \A m \in k..(j - 1) : IsSpace(Ch(s, m))

\* last index <= k that is before the start of s or holds no whitespace
SkipSpaceBack(s, k) ==
    CHOOSE j \in 0..k :
        /\ j < 1 \/ ~IsSpace(Ch(s, j))
        /\ \A m \in (j + 1)..k : IsSpace(Ch(s, m))

\* first index >= k that is past the end of s or holds whitespace
SkipNonSpace(s, k) ==
    CHOOSE j \in k..(Len(s) + 1) :
        /\ j > Len(s) \/ IsSpace(Ch(s, j))
        /\ \A m \in k..(j - 1) : ~IsSpace(Ch(s, m))

\* first index >= k that is past the end of s or holds no \w character
SkipWord(s, k) ==
    CHOOSE j \in k..(Len(s) + 1) :
        /\ j > Len(s) \/ ~IsWordChar(Ch(s, j))
        /\ \A m \in k..(j - 1) : IsWordChar(Ch(s, m))

\* first index >= k that is past the end of s or holds no \d character
SkipDigits(s, k) ==
    CHOOSE j \in k..(Len(s) + 1) :
        /\ j > Len(s) \/ ~IsDigit(Ch(s, j))
        /\ \A m \in k..(j - 1) : IsDigit(Ch(s, m))

\* s.strip()
Strip(s) == Slice(s, SkipSpace(s, 1), SkipSpaceBack(s, Len(s)))

\* s.split(sep)
RECURSIVE Split(_, _)
Split(s, sep) ==
    LET p == Find(s, sep)
    IN IF p = 0 THEN <<s>>
       ELSE <<Slice(s, 1, p - 1)>> \o Split(Slice(s, p + Len(sep), Len(s)), sep)

\* s.split() : runs of non-whitespace
RECURSIVE SplitWS(_)
SplitWS(s) ==
    LET a == SkipSpace(s, 1)
        b == SkipNonSpace(s, a)
    IN IF a > Len(s) THEN <<>>
       ELSE <<Slice(s, a, b - 1)>> \o SplitWS(Slice(s, b, Len(s)))

\* the concatenation of the strings parts[a..b]
RECURSIVE Concat(_, _, _)
Concat(parts, a, b) ==
    IF a > b THEN ""
    ELSE IF a = b THEN parts[a]
    ELSE Concat(parts, a, (a + b) \div 2) \o Concat(parts, (a + b) \div 2 + 1, b)

\* sep.join(parts)
Join(sep, parts) ==
    Concat([k \in 1..(2 * Len(parts) - 1) |-> IF k % 2 = 1 THEN parts[(k + 1) \div 2] ELSE sep],
           1, 2 * Len(parts) - 1)

\* s.replace(old, new) for a one-character old
Replace(s, old, new) ==
    Concat([k \in 1..Len(s) |-> IF Ch(s, k) = old THEN new ELSE Ch(s, k)], 1, Len(s))

\* int(s) for a string of decimal digits
DigitValue(c) == CHOOSE v \in 0..9 : SubSeq(Digits, v + 1, v + 1) = c
RECURSIVE ParseInt(_)
ParseInt(s) ==
    IF s = "" THEN 0
    ELSE 10 * ParseInt(Slice(s, 1, Len(s) - 1)) + DigitValue(Ch(s, Len(s)))

\* f.readlines() of a file holding text: the lines with their newline
ReadLines(text) ==
    LET ends == {k \in 1..Len(text) : Ch(text, k) = "\n" \/ k = Len(text)}
        starts == {1} \cup {k + 1 : k \in ends \ {Len(text)}}
        StartOf(e) == Max({b \in starts : b <= e})
        EndAt(n) == CHOOSE e \in ends : Cardinality({x \in ends : x <= e}) = n
    IN [n \in 1..Cardinality(ends) |-> SubSeq(text, StartOf(EndAt(n)), EndAt(n))]

(***************************************************************************)
(* Data model: TYPE_SIZES, Field, StructDef.                               *)
(***************************************************************************)
TYPE_SIZES ==
    [t \in {"char", "int8_t", "uint8_t"} |-> 1] @@
    [t \in {"short", "unsigned short", "int16_t", "uint16_t"} |-> 2] @@
    [t \in {"int", "unsigned int", "int32_t", "uint32_t", "float"} |-> 4] @@
    [t \in {"long", "unsigned long", "int64_t", "uint64_t", "double"} |-> 8]

\* TYPE_SIZES.get(type_name, 1)
TypeWidth(type_name) == IF type_name \in DOMAIN TYPE_SIZES THEN TYPE_SIZES[type_name] ELSE 1

Field(name, type_name, is_array, array_size, offset) ==
    [name |-> name, type_name |-> type_name, is_array |-> is_array,
     array_size |-> array_size, offset |-> offset]

\* Field.size
FieldSize(f) == TypeWidth(f.type_name) * (IF f.is_array THEN f.array_size ELSE 1)

StructDef(name) == [name |-> name, fields |-> <<>>, header_string |-> "", size |-> 0]

(***************************************************************************)
(* The regular expressions of parse_header_file.                           *)
(***************************************************************************)
PackedAttr == "__attribute__((packed))"

\* struct\s+__attribute__\(\(packed\)\)\s+(\w+) anchored at index k:
\* the index after the match, 0 when there is no match at k
StructStartEnd(line, k) ==
    LET a == k + Len("struct")
        b == SkipSpace(line, a)
        c == b + Len(PackedAttr)
        d == SkipSpace(line, c)
        e == SkipWord(line, d)
    IN IF /\ Slice(line, k, a - 1) = "struct"
          /\ b > a
          /\ Slice(line, b, c - 1) = PackedAttr
          /\ d > c
          /\ e > d
       THEN e ELSE 0

\* struct_start_pattern.search(line): start of the leftmost match, 0 when none
StructStartPos(line) ==
    LET hits == {k \in 1..Len(line) : StructStartEnd(line, k) # 0}
    IN IF hits = {} THEN 0 ELSE Min(hits)

\* match.group(1)
StructStartName(line) ==
    LET k == StructStartPos(line)
        e == StructStartEnd(line, k)
        d == SkipSpace(line, SkipSpace(line, k + Len("struct")) + Len(PackedAttr))
    IN Slice(line, d, e - 1)

\* re.findall(r"'([^'])'", stmt), scanning from index k
RECURSIVE FindCharLiterals(_, _)
FindCharLiterals(stmt, k) ==
    LET q == FindFrom(stmt, "'", k)      \* a match starts at a quote
    IN IF q = 0 THEN <<>>
       ELSE IF /\ q + 2 <= Len(stmt)
               /\ Ch(stmt, q + 1) # "'"
               /\ Ch(stmt, q + 2) = "'"
            THEN <<Ch(stmt, q + 1)>> \o FindCharLiterals(stmt, q + 3)
            ELSE FindCharLiterals(stmt, q + 1)

\* (\w+)\[(\d+)\] anchored at index k: TRUE when it matches there
ArrayNameAt(s, k) ==
    LET e == SkipWord(s, k)
        d == SkipDigits(s, e + 1)
    IN e > k /\ Ch(s, e) = "[" /\ d > e + 1 /\ Ch(s, d) = "]"

\* re.search(r'(\w+)\[(\d+)\]', field_name_full): start of the leftmost match, 0 when none
ArrayNamePos(s) ==
    LET hits == {k \in 1..Len(s) : ArrayNameAt(s, k)}
    IN IF hits = {} THEN 0 ELSE Min(hits)

\* the characters of the input alphabet that are code point 0 ('\0' in Python);
\* a header text holds the two characters backslash and zero instead
NulChars == {}

\* s.replace('\0', '')
RemoveNul(s) ==
    Concat([k \in 1..Len(s) |-> IF Ch(s, k) \in NulChars THEN "" ELSE Ch(s, k)], 1, Len(s))

(***************************************************************************)
(* parse_header_file: the statements of one declaration body.              *)
(***************************************************************************)
\* a cursor that forgets the array length of the member it passes
AdvanceOffsetScalar(current_offset, field) == current_offset + TypeWidth(field.type_name)

\* current_offset += field.size
AdvanceOffset(current_offset, field) == current_offset + FieldSize(field)

\* the header tag after one statement (lines 122-124)
HeaderString(stmt, old) ==
    IF Contains(stmt, "header[") /\ Contains(stmt, "=")
    THEN RemoveNul(Join("", FindCharLiterals(stmt, 1)))
    ELSE old

\* the Field built from one statement (lines 130-144)
StatementField(parts, current_offset) ==
    LET field_name_full == parts[Len(parts)]
        field_type == Join(" ", SubSeq(parts, 1, Len(parts) - 1))
        is_array == Contains(field_name_full, "[")
        p == ArrayNamePos(field_name_full)
        e == SkipWord(field_name_full, p)
        d == SkipDigits(field_name_full, e + 1)
        field_name == IF is_array /\ p # 0 THEN Slice(field_name_full, p, e - 1)
                      ELSE field_name_full
        array_size == IF is_array /\ p # 0 THEN ParseInt(Slice(field_name_full, e + 1, d - 1))
                      ELSE 0
    IN Field(field_name, field_type, is_array, array_size, current_offset)

\* a loop body that keeps the header member out of the running offset
ParseStatementHeaderUncounted(s, current_offset, stmt0) ==
    LET stmt == Replace(stmt0, "\n", " ")
        s1 == [s EXCEPT !.header_string = HeaderString(stmt, s.header_string)]
        parts == SplitWS(Strip(Split(stmt, "=")[1]))
        field == StatementField(parts, current_offset)
    IN IF stmt0 = "" THEN [s |-> s, current_offset |-> current_offset]
       ELSE IF Len(parts) < 2 THEN [s |-> s1, current_offset |-> current_offset]
       ELSE [s |-> [s1 EXCEPT !.fields = Append(s1.fields, field)],
             current_offset |-> IF field.name = "header" THEN current_offset
                                ELSE AdvanceOffset(current_offset, field)]

\* one iteration of `for stmt in statements` (lines 112-150)
ParseStatement(s, current_offset, stmt0) ==
    LET stmt == Replace(stmt0, "\n", " ")
        s1 == [s EXCEPT !.header_string = HeaderString(stmt, s.header_string)]
        decl_part == Strip(Split(stmt, "=")[1])
        parts == SplitWS(decl_part)
        field == StatementField(parts, current_offset)
    IN IF stmt0 = "" THEN [s |-> s, current_offset |-> current_offset]
       ELSE IF Len(parts) < 2 THEN [s |-> s1, current_offset |-> current_offset]
       ELSE [s |-> [s1 EXCEPT !.fields = Append(s1.fields, field)],
             current_offset |-> AdvanceOffset(current_offset, field)]

RECURSIVE ParseStatements(_, _, _)
ParseStatements(s, current_offset, statements) ==
    IF statements = <<>> THEN [s EXCEPT !.size = current_offset]
    ELSE LET r == ParseStatement(s, current_offset, Head(statements))
         IN ParseStatements(r.s, r.current_offset, Tail(statements))

NonEmpty(str) == str # ""

\* [stmt.strip() for stmt in body.split(';') if stmt.strip()]
Statements(body) ==
    LET raw == Split(body, ";")
    IN SelectSeq([k \in 1..Len(raw) |-> Strip(raw[k])], NonEmpty)

\* lines 108-152: the StructDef of one accumulated declaration body
ParseBody(name, body) == ParseStatements(StructDef(name), 0, Statements(body))

(***************************************************************************)
(* parse_header_file: one iteration of `for line in lines`.                *)
(* st holds the locals in_struct, current_struct_name, brace_count,        *)
(* buffer and structs.                                                     *)
(***************************************************************************)
\* lines 53-56
StripComment(line) ==
    LET stripped == Strip(line)
    IN IF Contains(stripped, "//") THEN Strip(Split(stripped, "//")[1]) ELSE stripped

\* lines 60-70
StartStruct(st, line) ==
    IF ~st.in_struct /\ StructStartPos(line) # 0
    THEN [st EXCEPT !.current_struct_name = StructStartName(line),
                    !.in_struct = TRUE,
                    !.brace_count = IF Contains(line, "{")
                                    THEN Count(line, "{") - Count(line, "}")
                                    ELSE 0,
                    !.buffer = ""]
    ELSE st

\* lines 84-91
CountBraces(st, line) ==
    IF st.buffer = "" /\ Contains(line, st.current_struct_name)
    THEN st.brace_count + Count(line, "{") - Count(line, "}")
    ELSE st.brace_count + Count(line, "{") - Count(line, "}")

\* lines 96-153
FinishStruct(st, line) ==
    LET start == Find(st.buffer, "{")
        end == RFind(st.buffer, "}")
        body == Slice(st.buffer, start + 1, end - 1)
    IN IF st.brace_count = 0 /\ (Contains(line, "};") \/ EndsWith(Strip(st.buffer), "};"))
       THEN [st EXCEPT !.in_struct = FALSE,
                       !.structs = IF start # 0 /\ end # 0
                                   THEN Append(st.structs, ParseBody(st.current_struct_name, body))
                                   ELSE st.structs]
       ELSE st

\* lines 52-153
LoopBody(st, line) ==
    LET st1 == StartStruct(st, line)
        st2 == [st1 EXCEPT !.brace_count = CountBraces(st1, line),
                           !.buffer = st1.buffer \o line]
    IN IF StripComment(line) = "" THEN st
       ELSE IF ~st1.in_struct THEN st1
       ELSE FinishStruct(st2, line)

\* the locals before the loop (lines 39-44)
ParserInit == [in_struct |-> FALSE, current_struct_name |-> "", brace_count |-> 0,
               buffer |-> "", structs |-> <<>>]

\* parse_header_file as a function of the lines read
RECURSIVE RunLoop(_, _)
RunLoop(st, ls) == IF ls = <<>> THEN st ELSE RunLoop(LoopBody(st, Head(ls)), Tail(ls))

parse_header_file(ls) == RunLoop(ParserInit, ls).structs

(***************************************************************************)
(* generate_yaml.  The YAML file is modelled by the mapping that yaml.dump *)
(* writes and yaml.safe_load reads back.                                   *)
(***************************************************************************)
\* lines 163-165
PacketId(name) == IF EndsWith(name, "Data") THEN Slice(name, 1, Len(name) - 4) ELSE name

IsHeaderField(f) == f.name = "header"
NotHeaderField(f) == ~IsHeaderField(f)

\* field definitions that keep the header member
YamlFieldsUnfiltered(s) ==
    [k \in 1..Len(s.fields) |->
       [name |-> s.fields[k].name, type |-> s.fields[k].type_name, offset |-> s.fields[k].offset]]

\* lines 175-186: the field definitions of one packet
YamlFields(s) ==
    LET kept == SelectSeq(s.fields, NotHeaderField)
    IN [k \in 1..Len(kept) |->
          [name |-> kept[k].name, type |-> kept[k].type_name, offset |-> kept[k].offset]]

\* lines 163-186
Packet(s) ==
    [id |-> PacketId(s.name),
     header_string |-> IF s.header_string # "" THEN s.header_string ELSE PacketId(s.name),
     size_check |-> s.size,
     time_field |-> "time",
     fields |-> YamlFields(s)]

generate_yaml(ss) == [packets |-> [k \in 1..Len(ss) |-> Packet(ss[k])]]

(***************************************************************************)
(* parse_yaml_file.                                                        *)
(***************************************************************************)
\* dict.get(key, default)
Get(d, key, default) == IF key \in DOMAIN d THEN d[key] ELSE default

\* an insertion that puts an element before the elements of equal offset
InsertBeforeEqual(sorted, f) ==
    LET before == {k \in 1..Len(sorted) : sorted[k].offset < f.offset}
        n == IF before = {} THEN 0 ELSE Max(before)
    IN SubSeq(sorted, 1, n) \o <<f>> \o SubSeq(sorted, n + 1, Len(sorted))

\* list.sort(key=lambda x: x.offset) is stable: an element goes after every
\* element whose offset is not greater
InsertByOffset(sorted, f) ==
    LET before == {k \in 1..Len(sorted) : sorted[k].offset <= f.offset}
        n == IF before = {} THEN 0 ELSE Max(before)
    IN SubSeq(sorted, 1, n) \o <<f>> \o SubSeq(sorted, n + 1, Len(sorted))

RECURSIVE SortByOffset(_)
SortByOffset(fields) ==
    IF fields = <<>> THEN <<>>
    ELSE InsertByOffset(SortByOffset(SubSeq(fields, 1, Len(fields) - 1)), fields[Len(fields)])

\* lines 199-228
StructOfPacket(pkt) ==
    LET fs == Get(pkt, "fields", <<>>)
    IN [name |-> pkt.id \o "Data",
        header_string |-> Get(pkt, "header_string", ""),
        fields |-> SortByOffset([k \in 1..Len(fs) |->
                       Field(fs[k].name, fs[k].type, FALSE, 0, fs[k].offset)]),
        size |-> 0]

parse_yaml_file(doc) ==
    LET pkts == Get(doc, "packets", <<>>)
    IN [k \in 1..Len(pkts) |-> StructOfPacket(pkts[k])]

(***************************************************************************)
(* generate_header.                                                        *)
(***************************************************************************)
\* line 246: the character literals of the header initializer
HeaderSlots(header_string) ==
    LET pad == 4 - Len(header_string)
    IN [k \in 1..Len(header_string) |-> "'" \o Ch(header_string, k) \o "'"] \o
       [k \in 1..(IF pad > 0 THEN pad ELSE 0) |-> "'\\0'"]

\* lines 243-244
WritesHeader(s) ==
    LET first_offset == IF s.fields # <<>> THEN s.fields[1].offset ELSE 0
    IN first_offset >= 4 /\ s.header_string # ""

\* lines 238-252
StructText(s) ==
    "struct __attribute__((packed)) " \o s.name \o "\n" \o
    "{\n" \o
    (IF WritesHeader(s)
     THEN "    char header[4] = {" \o Join(", ", HeaderSlots(s.header_string)) \o "};\n"
     ELSE "") \o
    Join("", [k \in 1..Len(s.fields) |->
                "    " \o s.fields[k].type_name \o " " \o s.fields[k].name \o ";\n"]) \o
    "};\n\n"

generate_header(ss) ==
    "#pragma once\n" \o "#include <cstdint>\n\n" \o
    Join("", [k \in 1..Len(ss) |-> StructText(ss[k])])

(***************************************************************************)
(* The header texts and schema documents the runs start from.              *)
(***************************************************************************)
Styles == {"own", "same", "oneline"}   \* where the opening brace stands
DeclNames == <<"IMUData", "Foo", "GPSData", "Status">>
NameAt(k) == DeclNames[((k - 1) % Len(DeclNames)) + 1]
TagChars == "IMUX"
Separators == {",", ", "}
FieldPool == {"float a;", "unsigned int b;", "vec3 c;", "uint8_t d[3];", "double e = 1.5;"}
CommentTexts == {"note", "the x value", "a; b", "{", "}"}

\* the lines of one declaration
DeclLines(name, style, members, closed) ==
    LET start == "struct __attribute__((packed)) " \o name
        close == IF closed THEN <<"};\n">> ELSE <<>>
    IN CASE style = "own" ->
              <<start \o "\n", "{\n">> \o
              [k \in 1..Len(members) |-> "    " \o members[k] \o "\n"] \o close
         [] style = "same" ->
              <<start \o " {\n">> \o
              [k \in 1..Len(members) |-> "    " \o members[k] \o "\n"] \o close
         [] style = "oneline" ->
              <<start \o " { " \o
                Join("", [k \in 1..Len(members) |-> members[k] \o " "]) \o
                (IF closed THEN "};" ELSE "") \o "\n">>

\* char header[4] = {...}; with k ordinary characters and 4 - k '\0' literals
HeaderMember(k, sep) ==
    "char header[4] = {" \o
    Join(sep, [j \in 1..4 |-> IF j <= k THEN "'" \o Ch(TagChars, j) \o "'" ELSE "'\\0'"]) \o
    "};"

\* a header text and what is known of it: the text without its comment, the
\* names it declares, whether every declaration is terminated, the ordinary
\* characters of its header initializer ("-": not recorded)
Input(ls, plain, names, wellformed, tag, commented) ==
    [text |-> Join("", ls),
     about |-> [origin |-> "header", plain |-> Join("", plain), names |-> names,
                wellformed |-> wellformed, tag |-> tag, commented |-> commented]]

\* texts of up to MaxDecls declarations, each with its brace placement,
\* terminated or not
DeclShapes == [style : Styles, closed : BOOLEAN]
ShapeMembers == <<HeaderMember(3, ", "), "float a;">>

RECURSIVE ShapeLines(_)
ShapeLines(shapes) ==
    IF shapes = <<>> THEN <<"#pragma once\n", "\n">>
    ELSE LET n == Len(shapes)
         IN ShapeLines(SubSeq(shapes, 1, n - 1)) \o
            DeclLines(NameAt(n), shapes[n].style, ShapeMembers, shapes[n].closed) \o <<"\n">>

StructureInputs ==
    {Input(ShapeLines(shapes), ShapeLines(shapes), [k \in 1..Len(shapes) |-> NameAt(k)],
           \A k \in 1..Len(shapes) : shapes[k].closed, "-", FALSE) :
       shapes \in UNION {[1..n -> DeclShapes] : n \in 0..MaxDecls}}

\* one terminated declaration, brace on its own line, with or without a
\* header member, the header first or second, and up to MaxFields members
InjectiveSeqs(S, n) ==
    UNION {{q \in [1..m -> S] : \A a, b \in 1..m : a # b => q[a] # q[b]} : m \in 0..n}

TaggedHeader(k, sep) == [member |-> HeaderMember(k, sep), tag |-> Slice(TagChars, 1, k)]

HeaderShapes ==
    {[member |-> "", tag |-> "-"], [member |-> "char header[4];", tag |-> "-"],
     TaggedHeader(3, ", "), TaggedHeader(0, ", ")}

Members(h, second, fs) ==
    IF h.member = "" THEN fs
    ELSE IF second /\ fs # <<>> THEN <<fs[1], h.member>> \o Tail(fs)
    ELSE <<h.member>> \o fs

MemberInputs ==
    {LET ls == DeclLines(NameAt(n), "own", Members(h, second, fs), TRUE)
     IN Input(ls, ls, <<NameAt(n)>>, TRUE, h.tag, FALSE) :
       n \in 1..2, h \in HeaderShapes, second \in BOOLEAN,
       fs \in InjectiveSeqs(FieldPool, MaxFields)}

\* one declaration whose header initializer lists k ordinary characters
TagInputs ==
    {LET ls == DeclLines(NameAt(1), "own", <<TaggedHeader(k, sep).member, "float a;">>, TRUE)
     IN Input(ls, ls, <<NameAt(1)>>, TRUE, TaggedHeader(k, sep).tag, FALSE) :
       k \in 0..4, sep \in Separators}

\* one declaration with a // comment at the end of one line
WithComment(ls, j, c) ==
    [k \in 1..Len(ls) |->
       IF k = j THEN Slice(ls[k], 1, Len(ls[k]) - 1) \o " // " \o c \o "\n" ELSE ls[k]]

CommentInputs ==
    {LET ls == DeclLines(NameAt(1), "own", <<HeaderMember(3, ", "), "float a;", "double e;">>, TRUE)
     IN Input(WithComment(ls, j, c), ls, <<NameAt(1)>>, TRUE, "-", TRUE) :
       j \in 1..6, c \in CommentTexts}

HeaderInputs == StructureInputs \cup MemberInputs \cup TagInputs \cup CommentInputs

\* schema documents of one packet, and the document without packets
YamlDescriptors == [name : {"a", "b", "header"}, type : {"float"}, offset : {0, 4, 8}]
YamlFieldLists == UNION {[1..n -> YamlDescriptors] : n \in 0..MaxYamlFields}
YamlPackets ==
    {[id |-> id, size_check |-> 16, time_field |-> "time", fields |-> fs] :
       id \in {"IMU", "GPS"}, fs \in YamlFieldLists} \cup
    {[id |-> id, header_string |-> h, size_check |-> 16, time_field |-> "time", fields |-> fs] :
       id \in {"IMU", "GPS"}, h \in {"", "AB", "IMUX", "HELLO"}, fs \in YamlFieldLists}
YamlInputs == {[packets |-> <<pkt>>] : pkt \in YamlPackets} \cup {[packets |-> <<>>]}

(***************************************************************************)
(* The state machine: a run of --to-yaml on a header text, then            *)
(* --to-header on the schema it wrote, then parse_header_file on the       *)
(* header that wrote (the round trip); or a run of --to-header on a        *)
(* schema document.                                                        *)
(***************************************************************************)
VARIABLES
    pc,                   \* position in main
    header_file,          \* text of the header file
    yaml_file,            \* mapping stored in the YAML file
    lines, i,             \* parse_header_file: lines read, index of the next
    in_struct, current_struct_name, brace_count, buffer, structs,
    result,               \* how the last parse_header_file call ended
    pass,                 \* parse_header_file calls started
    first,                \* layouts of the first parse_header_file call
    given                 \* what is known of the input the run started from

vars == <<pc, header_file, yaml_file, lines, i, in_struct, current_struct_name,
          brace_count, buffer, structs, result, pass, first, given>>

Locals == [in_struct |-> in_struct, current_struct_name |-> current_struct_name,
           brace_count |-> brace_count, buffer |-> buffer, structs |-> structs]

FromYaml == [Input(<<>>, <<>>, <<>>, TRUE, "-", FALSE).about EXCEPT !.origin = "yaml"]

Init ==
    /\ lines = <<>> /\ i = 1
    /\ in_struct = FALSE /\ current_struct_name = "" /\ brace_count = 0
    /\ buffer = "" /\ structs = <<>>
    /\ result = "none" /\ pass = 0 /\ first = <<>>
    /\ \/ \E inp \in HeaderInputs :
            /\ given = inp.about
            /\ header_file = inp.text
            /\ yaml_file = [packets |-> <<>>]
            /\ pc = "to_yaml"
       \/ \E doc \in YamlInputs :
            /\ given = FromYaml
            /\ header_file = ""
            /\ yaml_file = doc
            /\ pc = "to_header"

\* parse_header_file, lines 36-44: read the file, initialise the locals
OpenHeader ==
    /\ \/ pc = "to_yaml"
       \/ pc = "header_written" /\ given.origin = "header"
    /\ lines' = ReadLines(header_file)
    /\ i' = 1
    /\ in_struct' = ParserInit.in_struct
    /\ current_struct_name' = ParserInit.current_struct_name
    /\ brace_count' = ParserInit.brace_count
    /\ buffer' = ParserInit.buffer
    /\ structs' = ParserInit.structs
    /\ pass' = pass + 1
    /\ result' = "none"
    /\ pc' = "parse_header"
    /\ UNCHANGED <<header_file, yaml_file, first, given>>

\* parse_header_file, lines 52-153: one iteration of the loop over the lines
ParseHeaderLine ==
    /\ pc = "parse_header"
    /\ i <= Len(lines)
    /\ \E st \in {LoopBody(Locals, lines[i])} :
          /\ in_struct' = st.in_struct
          /\ current_struct_name' = st.current_struct_name
          /\ brace_count' = st.brace_count
          /\ buffer' = st.buffer
          /\ structs' = st.structs
    /\ i' = i + 1
    /\ UNCHANGED <<pc, header_file, yaml_file, lines, result, pass, first, given>>

\* parse_header_file, line 155: the loop is over, the layouts are returned
ParseHeaderReturn ==
    /\ pc = "parse_header"
    /\ i > Len(lines)
    /\ result' = "returned"
    /\ first' = IF pass = 1 THEN structs ELSE first
    /\ pc' = "parsed"
    /\ UNCHANGED <<header_file, yaml_file, lines, i, in_struct, current_struct_name,
                   brace_count, buffer, structs, pass, given>>

\* generate_yaml, lines 157-191
GenerateYaml ==
    /\ pc = "parsed"
    /\ pass = 1
    /\ yaml_file' = generate_yaml(structs)
    /\ pc' = "to_header"
    /\ UNCHANGED <<header_file, lines, i, in_struct, current_struct_name, brace_count,
                   buffer, structs, result, pass, first, given>>

\* parse_yaml_file, lines 193-230
ParseYamlFile ==
    /\ pc = "to_header"
    /\ structs' = parse_yaml_file(yaml_file)
    /\ pc' = "yaml_parsed"
    /\ UNCHANGED <<header_file, yaml_file, lines, i, in_struct, current_struct_name,
                   brace_count, buffer, result, pass, first, given>>

\* generate_header, lines 232-252
GenerateHeader ==
    /\ pc = "yaml_parsed"
    /\ header_file' = generate_header(structs)
    /\ pc' = "header_written"
    /\ UNCHANGED <<yaml_file, lines, i, in_struct, current_struct_name, brace_count,
                   buffer, structs, result, pass, first, given>>

Next ==
    \/ OpenHeader
    \/ ParseHeaderLine
    \/ ParseHeaderReturn
    \/ GenerateYaml
    \/ ParseYamlFile
    \/ GenerateHeader

Spec == Init /\ [][Next]_vars

(***************************************************************************)
(* Properties.                                                             *)
(***************************************************************************)
FirstParseReturned == pc = "parsed" /\ pass = 1
Names(ss) == [k \in 1..Len(ss) |-> ss[k].name]
HeaderFields(s) == SelectSeq(s.fields, IsHeaderField)
VisibleFields(s) == SelectSeq(s.fields, NotHeaderField)
Visible(s) == [k \in 1..Len(VisibleFields(s)) |->
                 [name |-> VisibleFields(s)[k].name,
                  type_name |-> VisibleFields(s)[k].type_name,
                  offset |-> VisibleFields(s)[k].offset]]

RECURSIVE SumSizes(_)
SumSizes(fields) == IF fields = <<>> THEN 0 ELSE FieldSize(Head(fields)) + SumSizes(Tail(fields))

Contiguous(fields) ==
    \A k \in 2..Len(fields) : fields[k].offset = fields[k - 1].offset + FieldSize(fields[k - 1])
NonDecreasing(fields) ==
    \A k \in 2..Len(fields) : fields[k - 1].offset <= fields[k].offset

\* C1: a text of well-formed packed-record declarations parses to exactly
\* one layout per declaration, in source order and with the declaration's
\* name, wherever the opening brace stands.
C1_OneLayoutPerDeclaration ==
    (FirstParseReturned /\ given.wellformed /\ ~given.commented)
        => Names(structs) = given.names

\* C2: when the input ends inside a declaration that is never terminated,
\* parse_header_file ends in an error instead of returning layouts.
C2_UnterminatedIsFatal ==
    (FirstParseReturned /\ ~given.wellformed /\ in_struct) => result = "error"

PlainMembers(s) ==
    \A k \in 1..Len(s.fields) :
        s.fields[k].is_array =>
            /\ k = 1
            /\ s.fields[k].name = "header"
            /\ s.fields[k].type_name = "char"
            /\ s.fields[k].array_size = 4
RoundTripDone ==
    /\ pc = "parsed" /\ pass = 2
    /\ given.wellformed /\ ~given.commented
    /\ Len(first) = 1 /\ PlainMembers(first[1])

\* C3: round trip.  For a declaration of non-array members with an optional
\* leading char header[4], parse, generate_yaml, parse_yaml_file,
\* generate_header and parse again give the record name, header tag,
\* schema-visible fields and total size of the first parse.
C3_RoundTrip ==
    RoundTripDone =>
        /\ Len(structs) = 1
        /\ structs[1].name = first[1].name
        /\ structs[1].header_string = first[1].header_string
        /\ Visible(structs[1]) = Visible(first[1])
        /\ structs[1].size = first[1].size

SchemaWritten == pass >= 1 /\ pc \in {"to_header", "yaml_parsed", "header_written"}

C5_SizeFollowsTag ==
    pc = "parsed" =>
        \A k \in 1..Len(structs) :
            structs[k].size = (IF structs[k].header_string # "" THEN 4 ELSE 0)
                              + SumSizes(VisibleFields(structs[k]))

HeadersAreChar4(s) ==
    \A j \in 1..Len(HeaderFields(s)) :
        /\ HeaderFields(s)[j].type_name = "char"
        /\ HeaderFields(s)[j].is_array
        /\ HeaderFields(s)[j].array_size = 4

\* C5 as amended: the total size is the sum of the sizes of all members in
\* the fields list, the header member included: 4 for each char header[4]
\* member, with or without a tag, plus the sizes of the non-header fields.
C5_SizeCountsHeaderMember ==
    pc = "parsed" =>
        \A k \in 1..Len(structs) :
            HeadersAreChar4(structs[k]) =>
                structs[k].size = 4 * Len(HeaderFields(structs[k]))
                                  + SumSizes(VisibleFields(structs[k]))
C5_Witness ==
    /\ pc = "parsed"
    /\ \E k \in 1..Len(structs) :
          /\ Len(HeaderFields(structs[k])) = 1
          /\ structs[k].header_string = ""
          /\ \E j \in 1..Len(structs[k].fields) :
                structs[k].fields[j].is_array /\ structs[k].fields[j].name # "header"

\* C6 as stated: each schema-visible field after the first starts where
\* the previous schema-visible field ends, wherever the header member stands.
C6_VisibleContiguous ==
    pc = "parsed" =>
        \A k \in 1..Len(structs) :
            /\ NonDecreasing(VisibleFields(structs[k]))
            /\ Contiguous(VisibleFields(structs[k]))

\* C6 as amended: in the fields list with the header member included, each
\* field after the first starts where the previous one ends; the offsets
\* of the schema-visible fields are non-decreasing.
C6_MembersContiguous ==
    pc = "parsed" =>
        \A k \in 1..Len(structs) :
            /\ Contiguous(structs[k].fields)
            /\ NonDecreasing(structs[k].fields)
            /\ NonDecreasing(VisibleFields(structs[k]))
C6_Witness ==
    /\ pc = "parsed"
    /\ \E k \in 1..Len(structs) :
          /\ Len(structs[k].fields) >= 3
          /\ structs[k].fields[2].name = "header"
          /\ \E j \in 1..Len(structs[k].fields) :
                structs[k].fields[j].is_array /\ structs[k].fields[j].name # "header"

AsFields(descriptors) ==
    [j \in 1..Len(descriptors) |->
       [name |-> descriptors[j].name, type_name |-> descriptors[j].type,
        offset |-> descriptors[j].offset]]
FieldTriples(fields) ==
    [j \in 1..Len(fields) |->
       [name |-> fields[j].name, type_name |-> fields[j].type_name, offset |-> fields[j].offset]]
SameAtEveryOffset(fields, descriptors) ==
    \A o \in {descriptors[j].offset : j \in 1..Len(descriptors)}
             \cup {fields[j].offset : j \in 1..Len(fields)} :
        LET At(f) == f.offset = o
        IN SelectSeq(FieldTriples(fields), At) = SelectSeq(AsFields(descriptors), At)

\* C7: parse_yaml_file gives each packet a layout named id + "Data" whose
\* fields are the packet's descriptors, name, type and offset unchanged,
\* in non-decreasing offset order, fields of equal offset in document order.
C7_SortedStableCopy ==
    pc = "yaml_parsed" =>
        /\ Len(structs) = Len(yaml_file.packets)
        /\ \A k \in 1..Len(structs) :
              /\ structs[k].name = yaml_file.packets[k].id \o "Data"
              /\ Len(structs[k].fields) = Len(yaml_file.packets[k].fields)
              /\ NonDecreasing(structs[k].fields)
              /\ SameAtEveryOffset(structs[k].fields, yaml_file.packets[k].fields)
C7_Witness ==
    /\ pc = "yaml_parsed"
    /\ \E k \in 1..Len(structs) :
          LET d == yaml_file.packets[k].fields
          IN /\ \E a, b \in 1..Len(d) : a < b /\ d[a].offset = d[b].offset /\ d[a].name # d[b].name
             /\ \E a, b \in 1..Len(d) : a < b /\ d[a].offset > d[b].offset

\* C8: whenever generate_header writes the char header[4] member, its
\* initializer holds exactly 4 character literals: the tag's characters
\* followed by '\0' padding.
C8_FourInitializerSlots ==
    pc = "header_written" =>
        \A k \in 1..Len(structs) :
            WritesHeader(structs[k]) => Len(HeaderSlots(structs[k].header_string)) = 4

\* C9: for char header[4] = {...} with k ordinary character literals
\* followed by 4 - k '\0' literals, separated by "," or ", ", the header
\* tag is exactly the k ordinary characters.
C9_TagIsTheOrdinaryCharacters ==
    (FirstParseReturned /\ given.tag # "-") =>
        /\ Len(structs) = 1
        /\ structs[1].header_string = given.tag

Summary(ss) == [k \in 1..Len(ss) |-> [fields |-> FieldTriples(ss[k].fields), size |-> ss[k].size]]

\* C10: a // comment at the end of a line leaves the result of
\* parse_header_file unchanged: the same number of layouts with the same
\* field names, type names, offsets and total size.
C10_CommentsIgnored ==
    (FirstParseReturned /\ given.commented) =>
        Summary(structs) = Summary(parse_header_file(ReadLines(given.plain)))

====
